---- MODULE Spec2Model ----
(***************************************************************************)
(* SessionDynamoDbPool (src/session_pool.rs): the axum_session             *)
(* DatabasePool adapter over a DynamoDB client.                            *)
(*                                                                         *)
(* The adapter is stateless; the state of the system is the state of the   *)
(* DynamoDB endpoint behind `client`, plus the outcome of the last adapter *)
(* call.  Every handler is one action.  A handler builds the request the   *)
(* source builds (field by field; a field the source never sets is None),  *)
(* hands it to the endpoint and maps the answer as the source does.        *)
(*                                                                         *)
(* The endpoint is modelled by the DynamoDB API contract:                  *)
(*   - a request naming a table that does not exist is rejected            *)
(*     (ResourceNotFoundException);                                        *)
(*   - DeleteItem requires Key, Query requires a key condition on the      *)
(*     partition key, CreateTable requires the attribute definitions to    *)
(*     be exactly the key attributes and a billing mode or a provisioned   *)
(*     throughput (ValidationException otherwise);                         *)
(*   - any request may also fail for a reason of the service or the        *)
(*     network (`fault`), in which case it has no effect.                  *)
(* Reads are taken to see the latest write (the consistency of the         *)
(* endpoint's replicas is not modelled), and the pages of ListTables are   *)
(* taken to hold the whole catalog.                                        *)
(***************************************************************************)
EXTENDS Integers, Sequences, FiniteSets, TLC

(***************************************************************************)
(* Bounds of the model.                                                    *)
(***************************************************************************)
NumIds == 2
NumSessions == 2
NumExpires == 2

IdPool == <<"a", "b", "c", "d">>
SessionPool == <<"s1", "s2", "s3", "s4">>
ExpiresPool == <<1700000000, -5, 0, 42>>

TableNames == {"sessions"}
Ids == {IdPool[i] : i \in 1..NumIds}
Sessions == {SessionPool[i] : i \in 1..NumSessions}
ExpiresValues == {ExpiresPool[i] : i \in 1..NumExpires}

(***************************************************************************)
(* Option<T>: None is the empty set, Some(x) the singleton.                *)
(***************************************************************************)
None == {}
Some(x) == {x}
IsSome(o) == o # {}
Unwrap(o) == CHOOSE x \in o : TRUE

(***************************************************************************)
(* Result<T, DatabaseError>.  An error carries its DatabaseError variant   *)
(* and the text of the backend error it wraps (e.to_string()).             *)
(***************************************************************************)
Ok(v) == [ok |-> TRUE, val |-> v]
Err(variant, text) == [ok |-> FALSE, variant |-> variant, text |-> text]
Unit == "()"

(***************************************************************************)
(* i64::to_string: the decimal digits, with a leading '-' when negative.   *)
(***************************************************************************)
Digit(d) == <<"0", "1", "2", "3", "4", "5", "6", "7", "8", "9">>[d + 1]

RECURSIVE Decimal(_)
Decimal(n) == IF n < 10 THEN Digit(n) ELSE Decimal(n \div 10) \o Digit(n % 10)

to_string(n) == IF n < 0 THEN "-" \o Decimal(0 - n) ELSE Decimal(n)

(***************************************************************************)
(* AttributeValue: S(string) and N(decimal string).  as_s() is Ok(&s) on   *)
(* an S and Err on anything else; .ok().cloned() turns that into an        *)
(* Option<String>.                                                         *)
(***************************************************************************)
S(s) == [type |-> "S", value |-> s]
N(s) == [type |-> "N", value |-> s]
as_s_ok(av) == IF av.type = "S" THEN Some(av.value) ELSE None

(***************************************************************************)
(* HashMap<String, AttributeValue>: `item[name]` (Index) panics when the   *)
(* key is not in the map.                                                  *)
(***************************************************************************)
HasKey(item, name) == name \in DOMAIN item

(***************************************************************************)
(* The DynamoDB endpoint behind `client`.                                  *)
(*                                                                         *)
(* db maps the name of every table of the catalog to                       *)
(*   [ttl   |-> None, or Some(a) when time-to-live is enabled on a,        *)
(*    items |-> the items of the table, by the value of their hash key].   *)
(* Every table of the catalog has the hash key HashKey of type S.          *)
(***************************************************************************)
HashKey == "id"

SdkOk(out) == [ok |-> TRUE, out |-> out]
SdkErr(e) == [ok |-> FALSE, err |-> e]
Reply(resp, db) == [resp |-> resp, db |-> db]

NoItems == [i \in {} |-> {}]
Without(items, k) == [i \in (DOMAIN items) \ {k} |-> items[i]]

ListTables(db, req) == Reply(SdkOk([table_names |-> Some(DOMAIN db)]), db)

\* AttributeDefinitions must describe exactly the key attributes, and a
\* table is billed PAY_PER_REQUEST or has a provisioned throughput.
CreateTableValid(req) ==
    /\ {d.attribute_name : d \in req.attribute_definitions}
         = {k.attribute_name : k \in req.key_schema}
    /\ \/ req.billing_mode = Some("PAY_PER_REQUEST")
       \/ IsSome(req.provisioned_throughput)

CreateTable(db, req) ==
    IF ~CreateTableValid(req) THEN Reply(SdkErr("ValidationException"), db)
    ELSE IF req.table_name \in DOMAIN db
    THEN Reply(SdkErr("ResourceInUseException"), db)
    ELSE Reply(SdkOk([table_name |-> req.table_name]),
               (req.table_name :> [ttl |-> None, items |-> NoItems]) @@ db)

UpdateTimeToLive(db, req) ==
    IF req.table_name \notin DOMAIN db
    THEN Reply(SdkErr("ResourceNotFoundException"), db)
    ELSE LET spec == req.time_to_live_specification
             ttl == IF spec.enabled THEN Some(spec.attribute_name) ELSE None
         IN Reply(SdkOk([time_to_live_specification |-> spec]),
                  [db EXCEPT ![req.table_name].ttl = ttl])

\* A key is the hash key attribute alone, with a value of the key's type.
KeyValid(key) == DOMAIN key = {HashKey} /\ key[HashKey].type = "S"

PutItem(db, req) ==
    IF ~(HasKey(req.item, HashKey) /\ req.item[HashKey].type = "S")
    THEN Reply(SdkErr("ValidationException"), db)
    ELSE IF req.table_name \notin DOMAIN db
    THEN Reply(SdkErr("ResourceNotFoundException"), db)
    ELSE LET k == req.item[HashKey].value
             old == db[req.table_name].items
         IN Reply(SdkOk([attributes |-> None]),
                  [db EXCEPT ![req.table_name].items = (k :> req.item) @@ old])

GetItem(db, req) ==
    IF ~(IsSome(req.key) /\ KeyValid(Unwrap(req.key)))
    THEN Reply(SdkErr("ValidationException"), db)
    ELSE IF req.table_name \notin DOMAIN db
    THEN Reply(SdkErr("ResourceNotFoundException"), db)
    ELSE LET k == Unwrap(req.key)[HashKey].value
             items == db[req.table_name].items
         IN Reply(SdkOk([item |-> IF k \in DOMAIN items
                                  THEN Some(items[k]) ELSE None]), db)

DeleteItem(db, req) ==
    IF ~(IsSome(req.key) /\ KeyValid(Unwrap(req.key)))
    THEN Reply(SdkErr("ValidationException"), db)
    ELSE IF req.table_name \notin DOMAIN db
    THEN Reply(SdkErr("ResourceNotFoundException"), db)
    ELSE LET k == Unwrap(req.key)[HashKey].value
         IN Reply(SdkOk([attributes |-> None]),
                  [db EXCEPT ![req.table_name].items = Without(@, k)])

\* The attributes of an item a projection expression keeps.
Project(item, projection) ==
    IF IsSome(projection)
    THEN [a \in (DOMAIN item) \cap Unwrap(projection) |-> item[a]]
    ELSE item

\* Query reads the items of ONE hash key value: it requires a key
\* condition `<hash key> = :v`.  A table with no range key holds at most
\* one item for a hash key value.
Query(db, req) ==
    IF ~(IsSome(req.key_condition_expression)
         /\ Unwrap(req.key_condition_expression).attribute_name = HashKey
         /\ Unwrap(req.key_condition_expression).value.type = "S")
    THEN Reply(SdkErr("ValidationException"), db)
    ELSE IF req.table_name \notin DOMAIN db
    THEN Reply(SdkErr("ResourceNotFoundException"), db)
    ELSE LET k == Unwrap(req.key_condition_expression).value.value
             items == db[req.table_name].items
             found == IF k \in DOMAIN items THEN <<items[k]>> ELSE <<>>
         IN Reply(SdkOk([count |-> Len(found),
                         items |-> IF req.select = Some("COUNT") THEN None
                                   ELSE Some([i \in 1..Len(found) |->
                                          Project(found[i], req.projection_expression)])]),
                  db)

\* The endpoint's answer to a request.
Answer(db, req) ==
    CASE req.op = "ListTables" -> ListTables(db, req)
      [] req.op = "CreateTable" -> CreateTable(db, req)
      [] req.op = "UpdateTimeToLive" -> UpdateTimeToLive(db, req)
      [] req.op = "PutItem" -> PutItem(db, req)
      [] req.op = "GetItem" -> GetItem(db, req)
      [] req.op = "DeleteItem" -> DeleteItem(db, req)
      [] req.op = "Query" -> Query(db, req)

\* send(): a fault of the service or the network fails the request and
\* leaves the endpoint as it was; otherwise the endpoint answers.  `sent`
\* is the record of the request: its operation and the error it met ("" if
\* none).
Send(db, req, fault) ==
    LET a == IF fault THEN Reply(SdkErr("ServiceUnavailable"), db)
             ELSE Answer(db, req)
    IN [resp |-> a.resp, db |-> a.db,
        sent |-> [op |-> req.op, err |-> IF a.resp.ok THEN "" ELSE a.resp.err]]

(***************************************************************************)
(* The requests the adapter builds.  A field the fluent builder is never   *)
(* given stays None.                                                       *)
(***************************************************************************)
list_tables_request == [op |-> "ListTables"]

create_table_request(table_name) ==
    [op |-> "CreateTable",
     table_name |-> table_name,
     key_schema |-> {[attribute_name |-> "id", key_type |-> "HASH"]},
     attribute_definitions |->
        {[attribute_name |-> "id", attribute_type |-> "S"],
         [attribute_name |-> "session", attribute_type |-> "S"],
         [attribute_name |-> "expires", attribute_type |-> "N"]},
     billing_mode |-> None,
     provisioned_throughput |-> None]

update_time_to_live_request(table_name) ==
    [op |-> "UpdateTimeToLive",
     table_name |-> table_name,
     time_to_live_specification |->
        [enabled |-> TRUE, attribute_name |-> "expires"]]

count_request(table_name) ==
    [op |-> "Query",
     table_name |-> table_name,
     select |-> Some("COUNT"),
     key_condition_expression |-> None,
     projection_expression |-> None]

\* store_item with the session and id arguments exchanged.
store_item_swapped(id, session, expires) ==
    [id |-> S(id), session |-> S(id), expires |-> N(to_string(expires))]

store_item(id, session, expires) ==
    [id |-> S(id), session |-> S(session), expires |-> N(to_string(expires))]

\* store_request writing the id and the session alone.
store_request_without_expires(id, session, expires, table_name) ==
    [op |-> "PutItem",
     table_name |-> table_name,
     item |-> [id |-> S(id), session |-> S(session)]]

store_request(id, session, expires, table_name) ==
    [op |-> "PutItem",
     table_name |-> table_name,
     item |-> store_item(id, session, expires)]

load_request(id, table_name) ==
    [op |-> "GetItem",
     table_name |-> table_name,
     key |-> Some([id |-> S(id)])]

\* delete_one_by_id_request keyed by the table name instead of the id.
delete_one_by_id_request_misplaced(id, table_name) ==
    [op |-> "DeleteItem",
     table_name |-> table_name,
     key |-> Some([id |-> S(table_name)])]

delete_one_by_id_request(id, table_name) ==
    [op |-> "DeleteItem",
     table_name |-> table_name,
     key |-> Some([id |-> S(id)])]

\* key_condition_expression("id = :id") with :id bound to S(id)
exists_request(id, table_name) ==
    [op |-> "Query",
     table_name |-> table_name,
     select |-> Some("COUNT"),
     key_condition_expression |-> Some([attribute_name |-> "id", value |-> S(id)]),
     projection_expression |-> None]

delete_all_request(table_name) ==
    [op |-> "DeleteItem",
     table_name |-> table_name,
     key |-> None]

get_ids_request(table_name) ==
    [op |-> "Query",
     table_name |-> table_name,
     select |-> Some("SPECIFIC_ATTRIBUTES"),
     key_condition_expression |-> None,
     projection_expression |-> Some({"id"})]

(***************************************************************************)
(* The handlers, as functions of the endpoint's state d and of the         *)
(* request of the call that suffers a fault (0: none).  Each yields        *)
(*   [res  |-> what the call returns,                                      *)
(*    db   |-> the endpoint's state after the call,                        *)
(*    reqs |-> the requests the call sent, in order].                      *)
(* `?` returns the error at once: nothing is sent after a failed request.  *)
(***************************************************************************)
Out(res, d, reqs) == [res |-> res, db |-> d, reqs |-> reqs]

\* A panic unwinds out of the handler: the call returns nothing.
Panic == [ok |-> FALSE, variant |-> "panic", text |-> "key not found"]

create_tables(d, table_name, fault) ==
    LET r1 == Send(d, list_tables_request, fault = 1)
    IN IF ~r1.resp.ok THEN Out(r1.resp, r1.db, <<r1.sent>>)
       ELSE IF \E s \in (IF IsSome(r1.resp.out.table_names)
                         THEN Unwrap(r1.resp.out.table_names) ELSE {}) :
                  s = table_name
       THEN Out(SdkOk(Unit), r1.db, <<r1.sent>>)
       ELSE LET r2 == Send(r1.db, create_table_request(table_name), fault = 2)
            IN IF ~r2.resp.ok
               THEN Out(r2.resp, r2.db, <<r1.sent, r2.sent>>)
               ELSE LET r3 == Send(r2.db, update_time_to_live_request(table_name),
                                   fault = 3)
                        sent == <<r1.sent, r2.sent, r3.sent>>
                    IN IF ~r3.resp.ok THEN Out(r3.resp, r3.db, sent)
                       ELSE Out(SdkOk(Unit), r3.db, sent)

initiate(d, table_name, fault) ==
    LET o == create_tables(d, table_name, fault)
    IN IF o.res.ok THEN Out(Ok(Unit), o.db, o.reqs)
       ELSE Out(Err("GenericCreateError", o.res.err), o.db, o.reqs)

count(d, table_name, fault) ==
    LET r == Send(d, count_request(table_name), fault = 1)
    IN IF ~r.resp.ok
       THEN Out(Err("GenericSelectError", r.resp.err), r.db, <<r.sent>>)
       ELSE Out(Ok(r.resp.out.count), r.db, <<r.sent>>)

\* store sending its request a second time when the first one fails.
store_retrying(d, id, session, expires, table_name, fault) ==
    LET r == Send(d, store_request(id, session, expires, table_name), fault = 1)
        again == Send(r.db, store_request(id, session, expires, table_name), FALSE)
    IN IF r.resp.ok THEN Out(Ok(Unit), r.db, <<r.sent>>)
       ELSE IF ~again.resp.ok
       THEN Out(Err("GenericInsertError", again.resp.err), again.db,
                <<r.sent, again.sent>>)
       ELSE Out(Ok(Unit), again.db, <<r.sent, again.sent>>)

store(d, id, session, expires, table_name, fault) ==
    LET r == Send(d, store_request(id, session, expires, table_name), fault = 1)
    IN IF ~r.resp.ok
       THEN Out(Err("GenericInsertError", r.resp.err), r.db, <<r.sent>>)
       ELSE Out(Ok(Unit), r.db, <<r.sent>>)

\* output.item.map(|i| i["session"].as_s().ok().cloned()).flatten()
load_session(output) ==
    IF ~IsSome(output.item) THEN Ok(None)
    ELSE LET i == Unwrap(output.item)
         IN IF ~HasKey(i, "session") THEN Panic
            ELSE Ok(as_s_ok(i["session"]))

load(d, id, table_name, fault) ==
    LET r == Send(d, load_request(id, table_name), fault = 1)
    IN IF ~r.resp.ok
       THEN Out(Err("GenericSelectError", r.resp.err), r.db, <<r.sent>>)
       ELSE Out(load_session(r.resp.out), r.db, <<r.sent>>)

delete_one_by_id(d, id, table_name, fault) ==
    LET r == Send(d, delete_one_by_id_request(id, table_name), fault = 1)
    IN IF ~r.resp.ok
       THEN Out(Err("GenericDeleteError", r.resp.err), r.db, <<r.sent>>)
       ELSE Out(Ok(Unit), r.db, <<r.sent>>)

\* exists_found with the comparison off by one.
exists_found_from_zero(output) == output.count >= 0

\* res.count > 0
exists_found(output) == output.count > 0

exists(d, id, table_name, fault) ==
    LET r == Send(d, exists_request(id, table_name), fault = 1)
    IN IF ~r.resp.ok
       THEN Out(Err("GenericSelectError", r.resp.err), r.db, <<r.sent>>)
       ELSE Out(Ok(exists_found(r.resp.out)), r.db, <<r.sent>>)

\* delete_by_expiry sweeping the table itself.
delete_by_expiry_sweep(d, table_name) ==
    IF table_name \in DOMAIN d
    THEN Out(Ok(<<>>), [d EXCEPT ![table_name].items = NoItems], <<>>)
    ELSE Out(Ok(<<>>), d, <<>>)

delete_by_expiry(d, table_name) == Out(Ok(<<>>), d, <<>>)

\* delete_all reporting its failure as a delete error.
delete_all_delete_error(d, table_name, fault) ==
    LET r == Send(d, delete_all_request(table_name), fault = 1)
    IN IF ~r.resp.ok
       THEN Out(Err("GenericDeleteError", r.resp.err), r.db, <<r.sent>>)
       ELSE Out(Ok(Unit), r.db, <<r.sent>>)

delete_all(d, table_name, fault) ==
    LET r == Send(d, delete_all_request(table_name), fault = 1)
    IN IF ~r.resp.ok
       THEN Out(Err("GenericSelectError", r.resp.err), r.db, <<r.sent>>)
       ELSE Out(Ok(Unit), r.db, <<r.sent>>)

\* res.items.map(|items| items.into_iter()
\*     .map(|item| item["id"].as_s().ok().cloned()).flatten().collect())
\*   .unwrap_or_default()
RECURSIVE collect_ids(_)
collect_ids(items) ==
    IF items = <<>> THEN <<>>
    ELSE LET o == as_s_ok(Head(items)["id"])
         IN (IF IsSome(o) THEN <<Unwrap(o)>> ELSE <<>>) \o collect_ids(Tail(items))

get_ids_list(output) ==
    IF ~IsSome(output.items) THEN Ok(<<>>)
    ELSE LET items == Unwrap(output.items)
         IN IF \E i \in 1..Len(items) : ~HasKey(items[i], "id") THEN Panic
            ELSE Ok(collect_ids(items))

get_ids(d, table_name, fault) ==
    LET r == Send(d, get_ids_request(table_name), fault = 1)
    IN IF ~r.resp.ok
       THEN Out(Err("GenericSelectError", r.resp.err), r.db, <<r.sent>>)
       ELSE Out(get_ids_list(r.resp.out), r.db, <<r.sent>>)

auto_handles_expiry == TRUE

(***************************************************************************)
(* State.                                                                  *)
(*   dynamodb  the endpoint: its catalog and the items of its tables       *)
(*   last      the last call of the adapter: its name and arguments,       *)
(*             whether a request of it suffered a fault, what it           *)
(*             returned and the requests it sent                           *)
(*   stored    for every table and id, the session of the latest           *)
(*             successful store of the id, None when no store of it        *)
(*             succeeded or a successful delete came after                 *)
(*   calls     for every caller, the call it has in flight: the handler,   *)
(*             its arguments, the request it sends next (pc) and, once     *)
(*             it has returned, what it returned                           *)
(***************************************************************************)
VARIABLES dynamodb, last, stored, calls

vars == <<dynamodb, last, stored, calls>>

\* The callers that may have a call in flight at the same time.
Callers == {"c1", "c2"}

\* A caller with no call in flight.
Idle ==
    [pc |-> "idle", op |-> "", table_name |-> "", id |-> "", session |-> "",
     expires |-> 0, fault |-> FALSE, res |-> Ok(Unit), reqs |-> <<>>]

Call(op, table_name, id, fault, o) ==
    [op |-> op, table_name |-> table_name, id |-> id,
     fault |-> fault \in 1..Len(o.reqs), res |-> o.res, reqs |-> o.reqs]

\* The adapter is built from a client (From<DynamoDbClient>); it creates
\* nothing.  The catalog of the endpoint holds any of the tables, each
\* provisioned with the hash key id and with time-to-live on or off.
Init ==
    /\ \E present \in SUBSET TableNames :
          dynamodb \in [present -> [ttl : {None, Some("expires")}, items : {NoItems}]]
    /\ last = [op |-> "from", table_name |-> "", id |-> "", fault |-> FALSE,
               res |-> Ok(Unit), reqs |-> <<>>]
    /\ stored = [t \in TableNames |-> [i \in Ids |-> None]]
    /\ calls = [c \in Callers |-> Idle]

Initiate(table_name) ==
    \E fault \in 0..3 :
       LET o == initiate(dynamodb, table_name, fault)
       IN /\ dynamodb' = o.db
          /\ last' = Call("initiate", table_name, "", fault, o)
          /\ UNCHANGED <<stored, calls>>

Count(table_name) ==
    \E fault \in 0..1 :
       LET o == count(dynamodb, table_name, fault)
       IN /\ dynamodb' = o.db
          /\ last' = Call("count", table_name, "", fault, o)
          /\ UNCHANGED <<stored, calls>>

Store(id, session, expires, table_name) ==
    \E fault \in 0..1 :
       LET o == store(dynamodb, id, session, expires, table_name, fault)
       IN /\ dynamodb' = o.db
          /\ last' = Call("store", table_name, id, fault, o)
          /\ stored' = IF o.res.ok
                       THEN [stored EXCEPT ![table_name][id] = Some(session)]
                       ELSE stored
          /\ UNCHANGED calls

Load(id, table_name) ==
    \E fault \in 0..1 :
       LET o == load(dynamodb, id, table_name, fault)
       IN /\ dynamodb' = o.db
          /\ last' = Call("load", table_name, id, fault, o)
          /\ UNCHANGED <<stored, calls>>

DeleteOneById(id, table_name) ==
    \E fault \in 0..1 :
       LET o == delete_one_by_id(dynamodb, id, table_name, fault)
       IN /\ dynamodb' = o.db
          /\ last' = Call("delete_one_by_id", table_name, id, fault, o)
          /\ stored' = IF o.res.ok
                       THEN [stored EXCEPT ![table_name][id] = None]
                       ELSE stored
          /\ UNCHANGED calls

Exists(id, table_name) ==
    \E fault \in 0..1 :
       LET o == exists(dynamodb, id, table_name, fault)
       IN /\ dynamodb' = o.db
          /\ last' = Call("exists", table_name, id, fault, o)
          /\ UNCHANGED <<stored, calls>>

DeleteByExpiry(table_name) ==
    LET o == delete_by_expiry(dynamodb, table_name)
    IN /\ dynamodb' = o.db
       /\ last' = Call("delete_by_expiry", table_name, "", 0, o)
       /\ UNCHANGED <<stored, calls>>

DeleteAll(table_name) ==
    \E fault \in 0..1 :
       LET o == delete_all(dynamodb, table_name, fault)
       IN /\ dynamodb' = o.db
          /\ last' = Call("delete_all", table_name, "", fault, o)
          /\ stored' = IF o.res.ok
                       THEN [stored EXCEPT ![table_name] = [i \in Ids |-> None]]
                       ELSE stored
          /\ UNCHANGED calls

GetIds(table_name) ==
    \E fault \in 0..1 :
       LET o == get_ids(dynamodb, table_name, fault)
       IN /\ dynamodb' = o.db
          /\ last' = Call("get_ids", table_name, "", fault, o)
          /\ UNCHANGED <<stored, calls>>

AutoHandlesExpiry ==
    /\ last' = Call("auto_handles_expiry", "", "", 0,
                    Out(auto_handles_expiry, dynamodb, <<>>))
    /\ UNCHANGED <<dynamodb, stored, calls>>

Next ==
    \/ \E t \in TableNames : Initiate(t)
    \/ \E t \in TableNames : Count(t)
    \/ \E t \in TableNames, i \in Ids, s \in Sessions, e \in ExpiresValues :
          Store(i, s, e, t)
    \/ \E t \in TableNames, i \in Ids : Load(i, t)
    \/ \E t \in TableNames, i \in Ids : DeleteOneById(i, t)
    \/ \E t \in TableNames, i \in Ids : Exists(i, t)
    \/ \E t \in TableNames : DeleteByExpiry(t)
    \/ \E t \in TableNames : DeleteAll(t)
    \/ \E t \in TableNames : GetIds(t)
    \/ AutoHandlesExpiry

Spec == Init /\ [][Next]_vars

(***************************************************************************)
(* The same adapter over a table that other software has written to        *)
(* before the adapter is built: an item may lack the session attribute or  *)
(* hold it with another type than S.                                       *)
(***************************************************************************)
ForeignItems(id) ==
    {[id |-> S(id), expires |-> N(to_string(0))],
     [id |-> S(id), session |-> N(to_string(42)), expires |-> N(to_string(0))]}

ForeignContents ==
    {f \in UNION {[held -> UNION {ForeignItems(i) : i \in Ids}] : held \in SUBSET Ids} :
        \A i \in DOMAIN f : f[i] \in ForeignItems(i)}

InitForeign ==
    /\ \E present \in SUBSET TableNames :
          dynamodb \in [present -> [ttl : {None, Some("expires")},
                                    items : ForeignContents]]
    /\ last = [op |-> "from", table_name |-> "", id |-> "", fault |-> FALSE,
               res |-> Ok(Unit), reqs |-> <<>>]
    /\ stored = [t \in TableNames |-> [i \in Ids |-> None]]
    /\ calls = [c \in Callers |-> Idle]

SpecForeign == InitForeign /\ [][Next]_vars

(***************************************************************************)
(* Concurrent callers.  The handlers are async: a call gives way at every  *)
(* `.send().await`, and the endpoint serves one request at a time.  Each   *)
(* caller makes one call of initiate, store or delete_one_by_id; a step    *)
(* of a call is one request of it, sent and answered.  The adapter keeps   *)
(* nothing between the steps but the locals of the call.                   *)
(***************************************************************************)
InFlight(op, pc, table_name, id, session, expires) ==
    [pc |-> pc, op |-> op, table_name |-> table_name, id |-> id,
     session |-> session, expires |-> expires, fault |-> FALSE,
     res |-> Ok(Unit), reqs |-> <<>>]

Returned(call, res, sent, fault) ==
    [call EXCEPT !.pc = "returned", !.res = res,
                 !.reqs = Append(call.reqs, sent),
                 !.fault = call.fault \/ fault]

\* create_tables from one await to the next: the request at call.pc is
\* sent; an error returns at once (`?`), mapped by initiate.
create_tables_await(d, call, fault) ==
    LET req == CASE call.pc = "list_tables" -> list_tables_request
                 [] call.pc = "create_table" ->
                       create_table_request(call.table_name)
                 [] call.pc = "update_time_to_live" ->
                       update_time_to_live_request(call.table_name)
        r == Send(d, req, fault)
        on == [call EXCEPT !.reqs = Append(call.reqs, r.sent)]
    IN [db |-> r.db,
        call |->
          IF ~r.resp.ok
          THEN Returned(call, Err("GenericCreateError", r.resp.err), r.sent, fault)
          ELSE CASE call.pc = "list_tables" ->
                      IF \E n \in (IF IsSome(r.resp.out.table_names)
                                   THEN Unwrap(r.resp.out.table_names) ELSE {}) :
                            n = call.table_name
                      THEN Returned(call, Ok(Unit), r.sent, fault)
                      ELSE [on EXCEPT !.pc = "create_table"]
                 [] call.pc = "create_table" ->
                      [on EXCEPT !.pc = "update_time_to_live"]
                 [] call.pc = "update_time_to_live" ->
                      Returned(call, Ok(Unit), r.sent, fault)]

InitiateCall(c, table_name) ==
    /\ calls[c].pc = "idle"
    /\ calls' = [calls EXCEPT
                   ![c] = InFlight("initiate", "list_tables", table_name, "", "", 0)]
    /\ UNCHANGED <<dynamodb, last, stored>>

InitiateSend(c) ==
    /\ calls[c].op = "initiate"
    /\ calls[c].pc \in {"list_tables", "create_table", "update_time_to_live"}
    /\ \E fault \in BOOLEAN :
          LET o == create_tables_await(dynamodb, calls[c], fault)
          IN /\ dynamodb' = o.db
             /\ calls' = [calls EXCEPT ![c] = o.call]
    /\ UNCHANGED <<last, stored>>

StoreCall(c, id, session, expires, table_name) ==
    /\ calls[c].pc = "idle"
    /\ calls' = [calls EXCEPT
                   ![c] = InFlight("store", "put_item", table_name, id, session,
                                   expires)]
    /\ UNCHANGED <<dynamodb, last, stored>>

StoreSend(c) ==
    /\ calls[c].pc = "put_item"
    /\ \E fault \in BOOLEAN :
          LET call == calls[c]
              o == store(dynamodb, call.id, call.session, call.expires,
                         call.table_name, IF fault THEN 1 ELSE 0)
          IN /\ dynamodb' = o.db
             /\ calls' = [calls EXCEPT
                            ![c] = Returned(call, o.res, o.reqs[1], fault)]
    /\ UNCHANGED <<last, stored>>

DeleteOneByIdCall(c, id, table_name) ==
    /\ calls[c].pc = "idle"
    /\ calls' = [calls EXCEPT
                   ![c] = InFlight("delete_one_by_id", "delete_item", table_name,
                                   id, "", 0)]
    /\ UNCHANGED <<dynamodb, last, stored>>

DeleteOneByIdSend(c) ==
    /\ calls[c].pc = "delete_item"
    /\ \E fault \in BOOLEAN :
          LET call == calls[c]
              o == delete_one_by_id(dynamodb, call.id, call.table_name,
                                    IF fault THEN 1 ELSE 0)
          IN /\ dynamodb' = o.db
             /\ calls' = [calls EXCEPT
                            ![c] = Returned(call, o.res, o.reqs[1], fault)]
    /\ UNCHANGED <<last, stored>>

NextConcurrent ==
    \/ \E c \in Callers, t \in TableNames : InitiateCall(c, t)
    \/ \E c \in Callers : InitiateSend(c)
    \/ \E c \in Callers, t \in TableNames, i \in Ids, s \in Sessions,
          e \in ExpiresValues : StoreCall(c, i, s, e, t)
    \/ \E c \in Callers : StoreSend(c)
    \/ \E c \in Callers, t \in TableNames, i \in Ids : DeleteOneByIdCall(c, i, t)
    \/ \E c \in Callers : DeleteOneByIdSend(c)

SpecConcurrent == Init /\ [][NextConcurrent]_vars

(***************************************************************************)
(* Properties.                                                             *)
(***************************************************************************)
InCatalog(t) == t \in DOMAIN dynamodb
ItemsOf(t) == dynamodb[t].items
StoredIds(t) == {i \in Ids : IsSome(stored[t][i])}

\* A call that reached an existing table and met no fault.
Served(op) == last.op = op /\ ~last.fault /\ InCatalog(last.table_name)

\* C1: load(id, t) returns Some(s), s the session of the latest successful
\* store of id in t, when no successful delete_one_by_id of id came after
\* it, and None (not an error) when id was never stored or was deleted
\* last; a table holds one record for every id stored and not deleted,
\* whatever the number of stores of the id.
C1_LoadReturnsLatestStore ==
    /\ Served("load") => last.res = Ok(stored[last.table_name][last.id])
    /\ \A t \in DOMAIN dynamodb : DOMAIN ItemsOf(t) = StoredIds(t)

C1_Witness ==
    /\ Served("load")
    /\ last.res = Ok(Some(SessionPool[2]))
    /\ Cardinality(StoredIds(last.table_name)) = 2

\* C2: count(t) on a table of the catalog returns Ok(n), n the number of
\* ids that have a record in t.
C2_CountIsNumberOfRecords ==
    Served("count") =>
        last.res = Ok(Cardinality(DOMAIN ItemsOf(last.table_name)))

\* C3: delete_all(t) succeeds and leaves no record in t.
C3_DeleteAllRemovesEveryRecord ==
    Served("delete_all") =>
        last.res.ok /\ DOMAIN ItemsOf(last.table_name) = {}

\* C4: when initiate(t) has returned success, t is in the catalog and
\* time-to-live is enabled on its expires attribute.
C4_InitiateEnablesExpiry ==
    (last.op = "initiate" /\ last.res.ok) =>
        /\ InCatalog(last.table_name)
        /\ dynamodb[last.table_name].ttl = Some("expires")

\* C5: two initiate(t) calls in sequence both return success; the second
\* sends the catalog listing alone and leaves the endpoint unchanged.
\* Stated in the state the first call leaves: the first call has succeeded
\* and a second call made now succeeds in that way.
C5_InitiateTwiceSucceeds ==
    (last.op = "initiate" /\ ~last.fault) =>
        /\ last.res.ok
        /\ initiate(dynamodb, last.table_name, 0)
             = Out(Ok(Unit), dynamodb, <<[op |-> "ListTables", err |-> ""]>>)

\* C6: exists(id, t) returns true exactly when t holds a record of id:
\* when the latest successful store of id was not followed by a successful
\* delete_one_by_id of id, whatever was done to other ids.
C6_ExistsIffRecord ==
    Served("exists") =>
        /\ last.res = Ok(IsSome(stored[last.table_name][last.id]))
        /\ last.res = Ok(last.id \in DOMAIN ItemsOf(last.table_name))

C6_Witness ==
    /\ Served("exists")
    /\ last.res = Ok(TRUE)
    /\ \E i \in Ids : i # last.id /\ ~IsSome(stored[last.table_name][i])

\* C7: a call returns an error exactly when a request of it failed; the
\* error is of the category of the operation and carries the text of the
\* backend error; the failed request is the last the call sent, and the
\* records of every table are as they were.
ErrorVariant(op) ==
    CASE op = "initiate" -> "GenericCreateError"
      [] op \in {"count", "load", "exists", "get_ids", "delete_all"} ->
            "GenericSelectError"
      [] op = "store" -> "GenericInsertError"
      [] op = "delete_one_by_id" -> "GenericDeleteError"

Fallible ==
    {"initiate", "count", "store", "load", "delete_one_by_id", "exists",
     "delete_all", "get_ids"}

FailedRequests(reqs) == {k \in 1..Len(reqs) : reqs[k].err # ""}

C7_ErrorsKeepTheirCategory ==
    [][last'.op \in Fallible =>
        LET reqs == last'.reqs
            failed == FailedRequests(reqs)
        IN /\ (failed # {}) <=> ~last'.res.ok
           /\ ~last'.res.ok =>
                 /\ failed = {Len(reqs)}
                 /\ last'.res = Err(ErrorVariant(last'.op), reqs[Len(reqs)].err)
                 /\ \A t \in DOMAIN dynamodb :
                       /\ t \in DOMAIN dynamodb'
                       /\ dynamodb'[t].items = dynamodb[t].items]_vars

C7_Witness ==
    /\ last.op = "delete_all"
    /\ last.fault
    /\ InCatalog(last.table_name)
    /\ DOMAIN ItemsOf(last.table_name) # {}
    /\ last.res = Err("GenericSelectError", "ServiceUnavailable")

\* C8: delete_by_expiry(t) returns Ok of the empty list, sends no request
\* and leaves the endpoint unchanged; auto_handles_expiry() is true; a
\* record leaves a table only in a call of delete_one_by_id or delete_all.
C8_DeleteByExpiryDeletesNothing ==
    [][/\ last'.op = "delete_by_expiry" =>
             /\ last'.res = Ok(<<>>)
             /\ last'.reqs = <<>>
             /\ dynamodb' = dynamodb
       /\ last'.op = "auto_handles_expiry" => last'.res = TRUE
       /\ (\E t \in DOMAIN dynamodb :
              t \notin DOMAIN dynamodb'
              \/ \E i \in DOMAIN dynamodb[t].items : i \notin DOMAIN dynamodb'[t].items)
          => last'.op \in {"delete_one_by_id", "delete_all"}]_vars

C8_Witness ==
    /\ last.op = "delete_by_expiry"
    /\ InCatalog(last.table_name)
    /\ dynamodb[last.table_name].ttl = Some("expires")
    /\ \E i \in DOMAIN ItemsOf(last.table_name) :
          ItemsOf(last.table_name)[i].expires = N("-5")

\* C9: load(id, t) of a record whose session attribute is missing, or is
\* not a string, returns Ok(None).
Malformed(item) == ~HasKey(item, "session") \/ item["session"].type # "S"

C9_MalformedRecordLoadsAsAbsent ==
    (/\ Served("load")
     /\ last.id \in DOMAIN ItemsOf(last.table_name)
     /\ Malformed(ItemsOf(last.table_name)[last.id]))
    => last.res = Ok(None)

\* C10: get_ids(t) on a table of the catalog returns Ok of a list whose
\* elements are the ids that have a record in t.
C10_GetIdsIsTheSetOfIds ==
    Served("get_ids") =>
        /\ last.res.ok
        /\ {last.res.val[k] : k \in 1..Len(last.res.val)}
             = DOMAIN ItemsOf(last.table_name)

\* C11: delete_one_by_id(id, t) on a table of the catalog returns success;
\* it leaves the table without a record of id and with the records of
\* every other id as they were (so with no record of id before, the table
\* is unchanged), and a second delete_one_by_id(id, t) right after it
\* returns success and changes nothing.
C11_DeleteOneByIdRemovesThatRecord ==
    [][(/\ last'.op = "delete_one_by_id"
        /\ ~last'.fault
        /\ last'.table_name \in DOMAIN dynamodb)
       => LET t == last'.table_name
              again == delete_one_by_id(dynamodb', last'.id, t, 0)
          IN /\ last'.res = Ok(Unit)
             /\ dynamodb' = [dynamodb EXCEPT
                               ![t].items = Without(dynamodb[t].items, last'.id)]
             /\ (last'.id \notin DOMAIN dynamodb[t].items => dynamodb' = dynamodb)
             /\ again.res = Ok(Unit)
             /\ again.db = dynamodb']_vars

C11_Witness ==
    /\ Served("delete_one_by_id")
    /\ last.res = Ok(Unit)
    /\ last.id \notin DOMAIN ItemsOf(last.table_name)
    /\ DOMAIN ItemsOf(last.table_name) # {}

\* C12: the state in which two callers of initiate(t) have both listed
\* the catalog without finding t, before either has sent its create-table
\* request, is reachable; when both requests are then served (in either
\* order, with no fault), at most one creation takes effect, a caller
\* whose creation is rejected returns a creation error, and t is in the
\* catalog afterwards.
BothAboutToCreate(c, d) ==
    /\ c # d
    /\ calls[c].op = "initiate" /\ calls[d].op = "initiate"
    /\ calls[c].pc = "create_table" /\ calls[d].pc = "create_table"
    /\ calls[c].table_name = calls[d].table_name
    /\ calls[c].table_name \notin DOMAIN dynamodb

CreateRejected(call) == call.reqs[Len(call.reqs)].err # ""

C12_RacingInitiateCreatesTheTable ==
    \A c, d \in Callers :
       BothAboutToCreate(c, d) =>
          LET first == create_tables_await(dynamodb, calls[c], FALSE)
              second == create_tables_await(first.db, calls[d], FALSE)
          IN /\ CreateRejected(first.call) \/ CreateRejected(second.call)
             /\ \A o \in {first, second} :
                   CreateRejected(o.call) =>
                      /\ o.call.pc = "returned"
                      /\ ~o.call.res.ok
                      /\ o.call.res.variant = "GenericCreateError"
             /\ calls[c].table_name \in DOMAIN second.db

\* C13: under every interleaving of concurrent store and delete_one_by_id
\* calls, the item a table holds for an id carries that id, and an item
\* appears or changes only in the step of one store call, as the id,
\* session and expires of that call together.
C13_RecordsAreWholeStores ==
    [][/\ \A t \in DOMAIN dynamodb' :
             \A i \in DOMAIN dynamodb'[t].items :
                dynamodb'[t].items[i].id = S(i)
       /\ \A t \in DOMAIN dynamodb' :
             \A i \in DOMAIN dynamodb'[t].items :
                (\/ t \notin DOMAIN dynamodb
                 \/ i \notin DOMAIN dynamodb[t].items
                 \/ dynamodb'[t].items[i] # dynamodb[t].items[i])
                => \E c \in Callers :
                      /\ calls[c].pc = "put_item"
                      /\ calls'[c].pc = "returned"
                      /\ calls[c].table_name = t
                      /\ calls[c].id = i
                      /\ dynamodb'[t].items[i]
                           = [id |-> S(i),
                              session |-> S(calls[c].session),
                              expires |-> N(to_string(calls[c].expires))]]_vars

C13_Witness ==
    \E c, d \in Callers :
       /\ c # d
       /\ calls[c].op = "store" /\ calls[d].op = "store"
       /\ calls[c].pc = "returned" /\ calls[d].pc = "returned"
       /\ calls[c].res.ok /\ calls[d].res.ok
       /\ calls[c].id = calls[d].id
       /\ calls[c].session # calls[d].session
       /\ calls[c].expires # calls[d].expires
       /\ calls[c].table_name = calls[d].table_name
       /\ ItemsOf(calls[c].table_name)[calls[c].id].expires
            = N(to_string(calls[c].expires))

\* C14 as stated: every call of initiate, count, store, load,
\* delete_one_by_id, exists, delete_all and get_ids sends exactly one
\* request.
C14_EveryCallIsOneRequest ==
    last.op \in Fallible => Len(last.reqs) = 1

\* C14, amended: a call of count, store, load, delete_one_by_id, exists,
\* delete_all or get_ids sends exactly one request, of the operation of
\* the handler; a call of initiate sends ListTables, then CreateTable,
\* then UpdateTimeToLive, each once and each only after the one before it
\* succeeded; no request is sent after a failed one.
RequestOf(op) ==
    CASE op \in {"count", "exists", "get_ids"} -> "Query"
      [] op = "store" -> "PutItem"
      [] op = "load" -> "GetItem"
      [] op \in {"delete_one_by_id", "delete_all"} -> "DeleteItem"

InitiateRequests == <<"ListTables", "CreateTable", "UpdateTimeToLive">>

C14_NoRequestIsRepeated ==
    last.op \in Fallible =>
        /\ \A k \in 1..(Len(last.reqs) - 1) : last.reqs[k].err = ""
        /\ last.op # "initiate" =>
              /\ Len(last.reqs) = 1
              /\ last.reqs[1].op = RequestOf(last.op)
        /\ last.op = "initiate" =>
              /\ Len(last.reqs) \in 1..3
              /\ \A k \in 1..Len(last.reqs) :
                    last.reqs[k].op = InitiateRequests[k]

C14_Witness ==
    /\ last.op = "initiate"
    /\ ~last.fault
    /\ Len(last.reqs) = 2
    /\ last.reqs[2] = [op |-> "CreateTable", err |-> "ValidationException"]

====
